---- MODULE Spec2Model ----
(***************************************************************************)
(* Model of info-bot: the serving layer (server.py) runs one subprocess of *)
(* the query pipeline (video_query.py) per request and recovers the answer *)
(* from a result file.                                                      *)
(*                                                                          *)
(* Times are counted in half seconds (13.5 s is 27), so int(t) is t \div 2. *)
(* A Python value that may be None is a sequence of length at most one:     *)
(* <<>> is None and <<v>> is the value v.                                   *)
(* A path is the sequence of its components; a component is                 *)
(* <<name, suffix, n>>, so that "x_query_13s.txt" is <<"x", "_query_s.txt", *)
(* 13>> and a video id holding slashes spans several components.            *)
(***************************************************************************)
EXTENDS Integers, Sequences, FiniteSets, TLC

\* ---------------------------------------------------------------- bounds
MaxRequests == 2
MaxScenes == 3

Requests == 1..MaxRequests

\* ------------------------------------------------------------ input sets
\* "x" is a segmented video; the second id is a string with slashes in it,
\* which QueryModel accepts like any other str.
VideoIds == { <<"x">>, <<"videos", "x", "x">> }
\* 3.0 s, 5.0 s, 13.0 s, 13.5 s, 20.0 s
Timestamps == {6, 10, 26, 27, 40}
NoQuestion == <<>>
Questions == { NoQuestion, <<"What is happening?">> }
Answer == "A red car drives past."
\* what client.chat.completions.create can do
ApiOutcomes == {"text", "raises", "no_choices", "no_content"}

\* ------------------------------------------------------ scene manifests
Boundary(i) ==
  CASE i = 0 -> 0
    [] i = 1 -> 10
    [] i = 2 -> 24
    [] OTHER -> 40 + 12 * (i - 3)

ClipPath(n) == <<"clip", n>>

Entry(s, e, txt) == [start |-> s, end |-> e, text |-> txt]

SceneRecord(n, s, e) ==
  [scene_number |-> n, start_time |-> s, end_time |-> e, duration |-> e - s,
   scene_path |-> ClipPath(n),
   transcript |-> IF n = 2 THEN <<>> ELSE << Entry(s, e, "speech") >>,
   captions |-> IF n = 1 THEN <<>> ELSE << Entry(s, e, "caption") >>]

\* contiguous, non-overlapping: [0,5) [5,12) [12,20) ...
ValidManifest(n) == [i \in 1..n |-> SceneRecord(i, Boundary(i - 1), Boundary(i))]
\* every scene but the last runs 2 s into its successor
OverlappingManifest(n) ==
  [i \in 1..n |-> SceneRecord(i, Boundary(i - 1),
                              IF i < n THEN Boundary(i) + 4 ELSE Boundary(i))]
\* every scene but the first starts 1 s late
GappedManifest(n) ==
  [i \in 1..n |-> SceneRecord(i, IF i > 1 THEN Boundary(i - 1) + 2 ELSE Boundary(i - 1),
                              Boundary(i))]

Manifests ==
  { ValidManifest(n) : n \in 1..MaxScenes }
    \cup { OverlappingManifest(MaxScenes), GappedManifest(MaxScenes) }

AllManifests ==
  { ValidManifest(n) : n \in 1..MaxScenes }
    \cup { OverlappingManifest(n) : n \in 1..MaxScenes }
    \cup { GappedManifest(n) : n \in 1..MaxScenes }

AllClips == { ClipPath(n) : n \in 1..MaxScenes }

\* ------------------------------------------------------------------ paths
Plain(name) == <<name, "", 0>>

\* the components of f"{video_id}{suffix}" with n the number printed in it
WithSuffix(video_id, suffix, n) ==
  [i \in 1..Len(video_id) |->
     IF i = Len(video_id) THEN <<video_id[i], suffix, n>> ELSE Plain(video_id[i])]

AsDirs(video_id) == [i \in 1..Len(video_id) |-> Plain(video_id[i])]

\* int(timestamp), for timestamp >= 0
IntPart(timestamp) == timestamp \div 2

scene_info_path(video_id) ==
  << Plain("videos") >> \o AsDirs(video_id)
    \o WithSuffix(video_id, "_scenes_new", 0) \o << Plain("scene_info.json") >>

output_file(video_id, timestamp) ==
  WithSuffix(video_id, "_query_s.txt", IntPart(timestamp))

response_file(video_id, current_time) ==
  << Plain("videos") >> \o AsDirs(video_id)
    \o WithSuffix(video_id, "_query_s.txt", IntPart(current_time))

ResultPaths ==
  { output_file(v, t) : v \in VideoIds, t \in Timestamps }
    \cup { response_file(v, t) : v \in VideoIds, t \in Timestamps }

\* ------------------------------------------------------- scene resolver
\* seq[i] of Python, for 0 <= i < len(seq)
At0(seq, i) == seq[i + 1]

RECURSIVE ScanFrom(_, _, _)
ScanFrom(scene_info, timestamp, i) ==
  IF i > Len(scene_info) THEN <<>>
  ELSE IF scene_info[i].start_time <= timestamp /\ timestamp < scene_info[i].end_time
       THEN << scene_info[i] >>
       ELSE ScanFrom(scene_info, timestamp, i + 1)

\* variant: the interval is closed at end_time
RECURSIVE ScanFromClosed(_, _, _)
ScanFromClosed(scene_info, timestamp, i) ==
  IF i > Len(scene_info) THEN <<>>
  ELSE IF scene_info[i].start_time <= timestamp /\ timestamp <= scene_info[i].end_time
       THEN << scene_info[i] >>
       ELSE ScanFromClosed(scene_info, timestamp, i + 1)

find_scene_closed_interval(scene_info, timestamp) == ScanFromClosed(scene_info, timestamp, 1)

find_scene_for_timestamp(scene_info, timestamp) == ScanFrom(scene_info, timestamp, 1)

\* variant: the guard is current_index > 1
previous_scene_from_third(scene_info, current_scene) ==
  LET current_index == current_scene.scene_number - 1
  IN  IF current_index > 1 THEN << At0(scene_info, current_index - 1) >> ELSE <<>>

\* variant: the index is current_index - 2
previous_scene_two_back(scene_info, current_scene) ==
  LET current_index == current_scene.scene_number - 1
  IN  IF current_index > 1 THEN << At0(scene_info, current_index - 2) >> ELSE <<>>

get_context_from_previous_scene(scene_info, current_scene) ==
  LET current_index == current_scene.scene_number - 1
  IN  IF current_index > 0 THEN << At0(scene_info, current_index - 1) >> ELSE <<>>

\* --------------------------------------------------- context formatter
Line(t) == [start |-> t.start, end |-> t.end, text |-> t.text]
Sentinel(txt) == [start |-> 0, end |-> 0, text |-> txt]

format_transcript(transcript_list) ==
  IF transcript_list = <<>> THEN << Sentinel("No transcript available.") >>
  ELSE [i \in 1..Len(transcript_list) |-> Line(transcript_list[i])]

format_captions(captions_list) ==
  IF captions_list = <<>> THEN << Sentinel("No captions available.") >>
  ELSE [i \in 1..Len(captions_list) |-> Line(captions_list[i])]

\* one labelled piece of scene_info_text: the label, the numbers printed
\* after it and the lines that follow it
Block(label, a, b, lines) == [label |-> label, a |-> a, b |-> b, lines |-> lines]

\* variant: the previous scene's block is written first
scene_info_text_previous_first(scene, prev_scene, timestamp) ==
  (IF prev_scene # <<>>
   THEN << Block("PREVIOUS SCENE INFORMATION", 0, 0, <<>>),
           Block("SCENE NUMBER", prev_scene[1].scene_number, 0, <<>>),
           Block("TIMESTAMP RANGE", prev_scene[1].start_time, prev_scene[1].end_time, <<>>),
           Block("TRANSCRIPT", 0, 0, format_transcript(prev_scene[1].transcript)),
           Block("CAPTIONS", 0, 0, format_captions(prev_scene[1].captions)) >>
   ELSE <<>>)
  \o << Block("SCENE NUMBER", scene.scene_number, 0, <<>>),
        Block("TIMESTAMP RANGE", scene.start_time, scene.end_time, <<>>),
        Block("DURATION", scene.duration, 0, <<>>),
        Block("QUERY TIMESTAMP", timestamp, 0, <<>>),
        Block("SCENE TRANSCRIPT", 0, 0, format_transcript(scene.transcript)),
        Block("SCENE CAPTIONS", 0, 0, format_captions(scene.captions)) >>

scene_info_text(scene, prev_scene, timestamp) ==
  << Block("SCENE NUMBER", scene.scene_number, 0, <<>>),
     Block("TIMESTAMP RANGE", scene.start_time, scene.end_time, <<>>),
     Block("DURATION", scene.duration, 0, <<>>),
     Block("QUERY TIMESTAMP", timestamp, 0, <<>>),
     Block("SCENE TRANSCRIPT", 0, 0, format_transcript(scene.transcript)),
     Block("SCENE CAPTIONS", 0, 0, format_captions(scene.captions)) >>
  \o (IF prev_scene # <<>>
      THEN << Block("PREVIOUS SCENE INFORMATION", 0, 0, <<>>),
              Block("SCENE NUMBER", prev_scene[1].scene_number, 0, <<>>),
              Block("TIMESTAMP RANGE", prev_scene[1].start_time, prev_scene[1].end_time, <<>>),
              Block("TRANSCRIPT", 0, 0, format_transcript(prev_scene[1].transcript)),
              Block("CAPTIONS", 0, 0, format_captions(prev_scene[1].captions)) >>
      ELSE <<>>)

\* ------------------------------------------------------------------ state
VARIABLES
  manifest,   \* videos/x/x_scenes_new/scene_info.json: <<>> absent, else <<its scenes>>
  clips,      \* the scene clip files that exist
  files,      \* result files: path -> <<>> absent, else <<[text, by]>>, by the writing run
  req         \* per request: the handler's and its subprocess's locals and position

vars == << manifest, clips, files, req >>

Idle ==
  [pc |-> "idle", video_id |-> <<>>, current_time |-> 0, question |-> <<>>,
   scene_info |-> <<>>, scene |-> <<>>, prev_scene |-> <<>>, context |-> <<>>,
   prompt |-> <<>>, api |-> "", response |-> <<>>, returncode |-> <<>>,
   steps |-> <<>>, result |-> <<>>]

Init ==
  /\ manifest \in { <<>> } \cup { << m >> : m \in Manifests }
  /\ clips \in { AllClips, AllClips \ { ClipPath(1) } }
  /\ files = [p \in ResultPaths |-> <<>>]
  /\ req = [r \in Requests |-> Idle]

\* open(path) of the manifest: only video "x" has one
ManifestAt(path) == IF path = scene_info_path(<<"x">>) THEN manifest ELSE <<>>

Step(r, name, changes) ==
  req' = [req EXCEPT ![r] = [f \in DOMAIN req[r] |->
            IF f = "steps" THEN Append(req[r].steps, name)
            ELSE IF f \in DOMAIN changes THEN changes[f] ELSE req[r][f]]]

\* ------------------------------------------------------------ server.py
\* receive_data up to the subprocess being started
Receive(r) ==
  /\ req[r].pc = "idle"
  /\ \E v \in VideoIds, t \in Timestamps, q \in Questions :
       Step(r, "receive",
            [pc |-> "load", video_id |-> v, current_time |-> t,
             question |-> IF q = NoQuestion THEN <<"Describe the scene">> ELSE q])
  /\ UNCHANGED << manifest, clips, files >>

\* ------------------------------------------------------- video_query.py
MsgManifest == "Scene information not found for this video."
MsgNoScene == "No scene was found for timestamp in this video."
MsgNoClip == "Video file for scene not found."
MsgApi == "Error calling API"

LoadManifest(r) ==
  /\ req[r].pc = "load"
  /\ LET found == ManifestAt(scene_info_path(req[r].video_id))
     IN  IF found = <<>>
         THEN Step(r, "load", [pc |-> "write", response |-> << MsgManifest >>])
         ELSE Step(r, "load", [pc |-> "resolve", scene_info |-> found])
  /\ UNCHANGED << manifest, clips, files >>

ResolveScene(r) ==
  /\ req[r].pc = "resolve"
  /\ LET scene == find_scene_for_timestamp(req[r].scene_info[1], req[r].current_time)
     IN  IF scene = <<>>
         THEN Step(r, "resolve", [pc |-> "write", response |-> << MsgNoScene >>])
         ELSE Step(r, "resolve",
                   [pc |-> "media", scene |-> scene,
                    prev_scene |-> get_context_from_previous_scene(req[r].scene_info[1], scene[1])])
  /\ UNCHANGED << manifest, clips, files >>

\* variant: os.path.exists(scene_path) is not consulted
CheckMediaUnchecked(r) ==
  /\ req[r].pc = "media"
  /\ Step(r, "media", [pc |-> "call"])
  /\ UNCHANGED << manifest, clips, files >>

CheckMedia(r) ==
  /\ req[r].pc = "media"
  /\ IF req[r].scene[1].scene_path \notin clips
     THEN Step(r, "media", [pc |-> "write", response |-> << MsgNoClip >>])
     ELSE Step(r, "media", [pc |-> "call"])
  /\ UNCHANGED << manifest, clips, files >>

\* the context and the prompt are built, the clip is read and the API is called
CallModel(r) ==
  /\ req[r].pc = "call"
  /\ LET text == scene_info_text(req[r].scene[1], req[r].prev_scene, req[r].current_time)
         prompt == << [context |-> text, query |-> req[r].question[1],
                       timestamp |-> req[r].current_time] >>
     IN  \E api \in ApiOutcomes :
           Step(r, "call",
                [pc |-> "write", context |-> text, prompt |-> prompt, api |-> api,
                 response |-> CASE api = "text" -> << Answer >>
                                [] api = "no_content" -> <<>>
                                [] OTHER -> << MsgApi >>])
  /\ UNCHANGED << manifest, clips, files >>

\* the directory a result file goes to: the working directory, or videos/x,
\* which is there whenever the manifest below it is
DirExists(path) ==
  LET dir == SubSeq(path, 1, Len(path) - 1)
  IN  \/ dir = <<>>
      \/ dir = << Plain("videos"), Plain("x") >> /\ manifest # <<>>

\* main after query_video_scene_with_api returned: open(output_file, "w")
\* raises FileNotFoundError without the directory and creates or truncates
\* the file with it, f.write(None) raises TypeError
WriteResult(r) ==
  /\ req[r].pc = "write"
  /\ LET path == output_file(req[r].video_id, req[r].current_time)
     IN  IF ~DirExists(path)
         THEN /\ files' = files
              /\ Step(r, "write", [pc |-> "exited", returncode |-> << 1 >>])
         ELSE IF req[r].response = <<>>
         THEN /\ files' = [files EXCEPT ![path] = << [text |-> "", by |-> r] >>]
              /\ Step(r, "write", [pc |-> "exited", returncode |-> << 1 >>])
         ELSE /\ files' = [files EXCEPT ![path] = << [text |-> req[r].response[1], by |-> r] >>]
              /\ Step(r, "write", [pc |-> "exited", returncode |-> << 0 >>])
  /\ UNCHANGED << manifest, clips >>

\* ------------------------------------------------------------ server.py
get_response_from_file(file_path) ==
  IF files[file_path] # <<>> THEN << files[file_path][1].text >> ELSE <<>>

\* receive_data after the subprocess ended
Respond(r) ==
  /\ req[r].pc = "exited"
  /\ LET path == response_file(req[r].video_id, req[r].current_time)
         response_text == get_response_from_file(path)
     IN  IF req[r].returncode # << 0 >>
         THEN Step(r, "respond",
                   [pc |-> "done",
                    result |-> << [status |-> "error", message |-> "Error processing video query",
                                   response |-> <<>>, from |-> <<>>] >>])
         ELSE IF response_text # <<>> /\ response_text[1] # ""
         THEN Step(r, "respond",
                   [pc |-> "done",
                    result |-> << [status |-> "success", message |-> "Query processed successfully",
                                   response |-> response_text,
                                   from |-> << files[path][1].by >>] >>])
         ELSE Step(r, "respond",
                   [pc |-> "done",
                    result |-> << [status |-> "error", message |-> "Response file not found",
                                   response |-> <<>>, from |-> <<>>] >>])
  /\ UNCHANGED << manifest, clips, files >>

Next ==
  \E r \in DOMAIN req :
    \/ Receive(r)
    \/ LoadManifest(r)
    \/ ResolveScene(r)
    \/ CheckMedia(r)
    \/ CallModel(r)
    \/ WriteResult(r)
    \/ Respond(r)

\* the serving layer with MaxRequests requests in flight
Spec == Init /\ [][Next]_vars

\* one request alone, over every manifest shape and every set of clip files
InitSingle ==
  /\ manifest \in { <<>> } \cup { << m >> : m \in AllManifests }
  /\ clips \in SUBSET AllClips
  /\ files = [p \in ResultPaths |-> <<>>]
  /\ req = [r \in {1} |-> Idle]

SpecSingle == InitSingle /\ [][Next]_vars

\* ----------------------------------------------------------- properties
Ran(r, name) == \E i \in 1..Len(req[r].steps) : req[r].steps[i] = name
Times(r, name) == Cardinality({ i \in 1..Len(req[r].steps) : req[r].steps[i] = name })
Resolved(r) == Ran(r, "resolve") /\ req[r].scene # <<>>
Ended(r) == req[r].pc \in {"exited", "done"}

\* C1 as stated: no previous scene for scene 1 and for scene 2, and the entry
\* at 0-based index scene_number - 2 from scene 3 on.
C1_NoneForFirstTwo ==
  \A r \in DOMAIN req :
    Resolved(r) =>
      LET n == req[r].scene[1].scene_number
      IN  /\ n \in {1, 2} => req[r].prev_scene = <<>>
          /\ n >= 3 => req[r].prev_scene = << manifest[1][n - 1] >>

\* C1: with contiguous 1-based scene numbers, get_context_from_previous_scene
\* returns nothing for scene 1 only, and for every scene_number >= 2 the
\* manifest entry at 0-based index scene_number - 2, the scene just before.
C1_PreviousScene ==
  \A r \in DOMAIN req :
    Resolved(r) =>
      LET n == req[r].scene[1].scene_number
      IN  /\ n = 1 => req[r].prev_scene = <<>>
          /\ n >= 2 => /\ req[r].prev_scene = << manifest[1][n - 1] >>
                       /\ req[r].prev_scene[1].scene_number = n - 1

C1_Witness ==
  \E r \in DOMAIN req :
    /\ Resolved(r)
    /\ req[r].scene[1].scene_number = 2
    /\ req[r].prev_scene # <<>>
    /\ req[r].prev_scene[1].scene_number = 1

\* the manifest of the end-to-end scenario: 1 = [0,5), 2 = [5,12), 3 = [12,20)
IsExample(m) ==
  /\ Len(m) = 3
  /\ \A i \in 1..3 : m[i].scene_number = i
  /\ m[1].start_time = 0 /\ m[1].end_time = 10
  /\ m[2].start_time = 10 /\ m[2].end_time = 24
  /\ m[3].start_time = 24 /\ m[3].end_time = 40

OnExample(r, t) ==
  /\ manifest # <<>>
  /\ IsExample(manifest[1])
  /\ req[r].video_id = <<"x">>
  /\ req[r].current_time = t
  /\ Ran(r, "resolve")

PreviousBlocks(context) ==
  { i \in 1..Len(context) : context[i].label = "PREVIOUS SCENE INFORMATION" }

\* C2 as stated: in the example a query at 13.5 s resolves to scene 3 with
\* scene 1 attached as the previous scene.
C2_PreviousIsSceneOne ==
  \A r \in DOMAIN req :
    OnExample(r, 27) =>
      /\ req[r].scene # <<>>
      /\ req[r].scene[1].scene_number = 3
      /\ req[r].prev_scene # <<>>
      /\ req[r].prev_scene[1].scene_number = 1

\* C2: in the example a query at 13.5 s resolves to scene 3 and the previous
\* scene attached to its context is scene 2; a query at 3.0 s resolves to
\* scene 1 and nothing is attached.
C2_Example ==
  \A r \in DOMAIN req :
    /\ OnExample(r, 27) =>
         /\ req[r].scene # <<>>
         /\ req[r].scene[1].scene_number = 3
         /\ req[r].prev_scene = << manifest[1][2] >>
         /\ Ran(r, "call") =>
              \E i \in PreviousBlocks(req[r].context) :
                /\ req[r].context[i + 1].label = "SCENE NUMBER"
                /\ req[r].context[i + 1].a = 2
    /\ OnExample(r, 6) =>
         /\ req[r].scene # <<>>
         /\ req[r].scene[1].scene_number = 1
         /\ req[r].prev_scene = <<>>
         /\ Ran(r, "call") => PreviousBlocks(req[r].context) = {}

C2_Witness ==
  \E r \in DOMAIN req :
    /\ OnExample(r, 27)
    /\ Ran(r, "call")
    /\ PreviousBlocks(req[r].context) # {}

Containing(m, t) == { i \in 1..Len(m) : m[i].start_time <= t /\ t < m[i].end_time }

\* C3: find_scene_for_timestamp returns the first record in manifest order
\* whose half-open interval [start_time, end_time) contains the timestamp, and
\* the run reports that no scene was found exactly when no interval does.
C3_FirstContaining ==
  \A r \in DOMAIN req :
    Ran(r, "resolve") =>
      LET m == req[r].scene_info[1]
          c == Containing(m, req[r].current_time)
      IN  /\ c = {} <=> req[r].scene = <<>>
          /\ c = {} <=> req[r].response = << MsgNoScene >>
          /\ c # {} => \E i \in c : /\ \A j \in c : i <= j
                                    /\ req[r].scene = << m[i] >>

C3_Witness ==
  \E r \in DOMAIN req :
    /\ Resolved(r)
    /\ \E i \in 1..Len(req[r].scene_info[1]) :
         /\ req[r].scene_info[1][i].end_time = req[r].current_time
         /\ req[r].scene[1].scene_number > i

CurrentLabels ==
  << "SCENE NUMBER", "TIMESTAMP RANGE", "DURATION", "QUERY TIMESTAMP",
     "SCENE TRANSCRIPT", "SCENE CAPTIONS" >>

Labels(context) == [i \in 1..Len(context) |-> context[i].label]

\* C8: the context text starts with the current scene's blocks (scene number,
\* time range, duration, query timestamp, transcript, captions) in that order,
\* a previous-scene block comes only after them, and there is one if and only
\* if get_context_from_previous_scene returned a scene.
C8_ContextOrder ==
  \A r \in DOMAIN req :
    Ran(r, "call") =>
      LET context == req[r].context
      IN  /\ Len(context) >= Len(CurrentLabels)
          /\ SubSeq(Labels(context), 1, Len(CurrentLabels)) = CurrentLabels
          /\ context[1].a = req[r].scene[1].scene_number
          /\ context[2].a = req[r].scene[1].start_time
          /\ context[2].b = req[r].scene[1].end_time
          /\ context[4].a = req[r].current_time
          /\ \A i \in PreviousBlocks(context) : i = Len(CurrentLabels) + 1
          /\ PreviousBlocks(context) # {} <=> req[r].prev_scene # <<>>
          /\ req[r].prev_scene = <<>> => Len(context) = Len(CurrentLabels)
          /\ req[r].prev_scene # <<>> =>
               context[Len(CurrentLabels) + 2].a = req[r].prev_scene[1].scene_number

C8_Witness ==
  \E r \in DOMAIN req :
    /\ Ran(r, "call")
    /\ req[r].prev_scene # <<>>
    /\ PreviousBlocks(req[r].context) # {}

\* C9: a run calls the model at most once and only after the manifest was
\* loaded, a scene was resolved and its clip was found; a missing manifest, an
\* unresolved timestamp or a missing clip ends the run without a call; no
\* step is taken twice.
C9_OneCallAfterChecks ==
  \A r \in DOMAIN req :
    /\ \A name \in {"receive", "load", "resolve", "media", "call", "write", "respond"} :
         Times(r, name) <= 1
    /\ Ran(r, "call") =>
         /\ SubSeq(req[r].steps, 1, 5) = << "receive", "load", "resolve", "media", "call" >>
         /\ req[r].scene_info # <<>>
         /\ req[r].scene # <<>>
         /\ req[r].scene[1].scene_path \in clips
    /\ (Ran(r, "load") /\ ManifestAt(scene_info_path(req[r].video_id)) = <<>>) =>
         ~Ran(r, "resolve") /\ ~Ran(r, "call") /\ req[r].response = << MsgManifest >>
    /\ (Ran(r, "resolve") /\ req[r].scene = <<>>) =>
         ~Ran(r, "media") /\ ~Ran(r, "call") /\ req[r].response = << MsgNoScene >>
    /\ (Ran(r, "media") /\ req[r].scene[1].scene_path \notin clips) =>
         ~Ran(r, "call") /\ req[r].response = << MsgNoClip >>

C9_Witness ==
  \E r \in DOMAIN req :
    /\ Ended(r)
    /\ req[r].scene_info # <<>>
    /\ req[r].scene # <<>>
    /\ req[r].scene[1].scene_path \notin clips
    /\ req[r].response = << MsgNoClip >>
    /\ ~Ran(r, "call")

\* C4: the path the subprocess writes is the path the serving layer reads, so a
\* request whose remote call returned text T ends with status success and
\* response T.
C4_PathsMatch ==
  \A r \in DOMAIN req :
    /\ Ended(r) =>
         output_file(req[r].video_id, req[r].current_time)
           = response_file(req[r].video_id, req[r].current_time)
    /\ (req[r].pc = "done" /\ req[r].api = "text") =>
         /\ req[r].result[1].status = "success"
         /\ req[r].result[1].response = << Answer >>

\* C5: a run that fails writes no result file: after ManifestNotFound there is
\* no file at the run's output path, and a result file that exists holds the
\* model's answer.
C5_NoFileOnFailure ==
  /\ \A r \in DOMAIN req :
       (Ended(r) /\ req[r].response = << MsgManifest >>) =>
         files[output_file(req[r].video_id, req[r].current_time)] = <<>>
  /\ \A p \in ResultPaths : files[p] # <<>> => files[p][1].text = Answer

\* C6: every request ends with a result carrying a status, and the status is
\* success only if the request's own run obtained an answer from the model.
C6_SuccessOnlyWithAnswer ==
  \A r \in DOMAIN req :
    req[r].pc = "done" =>
      /\ req[r].result # <<>>
      /\ req[r].result[1].status \in {"success", "error"}
      /\ req[r].result[1].status = "success" => req[r].api = "text"

\* C7: a response without extractable text ends the run like a call that
\* raised: with the call-failure error string and without a crash.
C7_NoTextIsCallFailure ==
  \A r \in DOMAIN req :
    (Ended(r) /\ req[r].api \in {"no_choices", "no_content"}) =>
      /\ req[r].response = << MsgApi >>
      /\ req[r].returncode = << 0 >>

\* C10: the response text returned for a request was written by that
\* request's own run.
C10_OwnResponse ==
  \A r \in DOMAIN req :
    (req[r].pc = "done" /\ req[r].result[1].response # <<>>) =>
      req[r].result[1].from = << r >>

====
